---- MODULE Spec2Model ----
(***************************************************************************)
(* PawCare: the record store (dogs, vaccinations, events), the CRUD        *)
(* handlers that write it, the read views that classify due dates, and the *)
(* daily reminder scan of services/scheduler.ts.                           *)
(*                                                                         *)
(* Dates are day numbers (day 1 = 2020-01-01).  A stored date column holds *)
(* NULL, the empty string, or a 'YYYY-MM-DD' text; SQLite compares the     *)
(* texts as strings, so the empty string sorts before every date and the   *)
(* dates sort chronologically.  EMPTY = 0 and dates >= 1 keep that order.  *)
(***************************************************************************)
EXTENDS Integers, Sequences, FiniteSets, TLC

\* ------------------------------------------------------------------ bounds
MaxDays == 1
MaxDogs == 1
MaxVax == 2
MaxEvents == 1
MaxWeights == 2
MaxMeds == 1
MaxQueries == 2

\* ------------------------------------------------------- program constants
VaccinationLookaheadDays == 7
EventsDashboardDays == 30
VaccinationsDashboardMonths == 3
SummaryUpcomingDays == 30
CronHour == 9
BirthdayReminderDays == 7
VaccinationEventReminderDays == 14
DefaultReminderDays == 1
MedicationReminderDays == 0

NULL == -1
EMPTY == 0

Users == {"u1", "u2"}
DogCreators == {"u1"}
TzOffsets == {0, 10}
HourSlots == {0, 9}

\* ---------------------------------------------------------------- calendar
IsLeap(y) == (y % 4 = 0 /\ y % 100 # 0) \/ (y % 400 = 0)

DaysInYear(y) == IF IsLeap(y) THEN 366 ELSE 365

DaysInMonth(y, m) ==
    IF m = 2 THEN (IF IsLeap(y) THEN 29 ELSE 28)
    ELSE IF m \in {4, 6, 9, 11} THEN 30 ELSE 31

RECURSIVE DaysBeforeYear(_)
DaysBeforeYear(y) ==
    IF y <= 2020 THEN 0 ELSE DaysBeforeYear(y - 1) + DaysInYear(y - 1)

RECURSIVE DaysBeforeMonth(_, _)
DaysBeforeMonth(y, m) ==
    IF m <= 1 THEN 0 ELSE DaysBeforeMonth(y, m - 1) + DaysInMonth(y, m - 1)

\* new Date(y, m, d): the month may exceed 12 and the day may exceed the
\* month's length; both overflow into the following months.
MakeDate(y, m, d) ==
    LET yy == y + ((m - 1) \div 12)
        mm == ((m - 1) % 12) + 1
    IN  DaysBeforeYear(yy) + DaysBeforeMonth(yy, mm) + d

RECURSIVE YearFrom(_, _)
YearFrom(n, y) ==
    IF n <= DaysBeforeYear(y + 1) THEN y ELSE YearFrom(n, y + 1)

getFullYear(n) == YearFrom(n, 2020)

RECURSIVE MonthFrom(_, _, _)
MonthFrom(n, y, m) ==
    IF n <= DaysBeforeYear(y) + DaysBeforeMonth(y, m + 1) THEN m
    ELSE MonthFrom(n, y, m + 1)

getMonth(n) == MonthFrom(n, getFullYear(n), 1)

getDate(n) == n - DaysBeforeYear(getFullYear(n)) - DaysBeforeMonth(getFullYear(n), getMonth(n))

StartDay == MakeDate(2024, 1, 14)

\* ------------------------------------------------------------------- state
VARIABLES
    tz,            \* server time zone, hours east of UTC
    day, hour,     \* server-local wall clock
    dogs,          \* dogs table: id -> row
    vaccinations,  \* vaccinations table: id -> row
    events,        \* events table: id -> row
    nextDog, nextVax, nextEvent,   \* fresh ids (uuidv4 never repeats)
    runs,          \* frames of the reminder-scan invocations in progress
    vaxLog,        \* vaccination id -> number of REMINDER lines logged for it
    announced,     \* events the scan run that ended last logged a REMINDER
                   \* line for, less the events written since
    response,      \* the HTTP response sent last
    weight_history,  \* weight_history rows in the order they were inserted
    medications,   \* medications table: id -> row
    nextMed,       \* fresh medication id
    ai_queries,    \* ai_queries rows in the order they were inserted
    food_database, \* food_database table: id -> row
    users,         \* users table: the emails registered
    registrations, \* the POST /auth/register requests received, each with
                   \* its position in the handler and its answer
    aiConfig       \* the providers AIService was constructed with and
                   \* DEFAULT_AI_PROVIDER

vars == <<tz, day, hour, dogs, vaccinations, events, nextDog, nextVax, nextEvent,
          runs, vaxLog, announced, response,
          weight_history, medications, nextMed, ai_queries,
          food_database, users, registrations, aiConfig>>

store == <<dogs, vaccinations, events, nextDog, nextVax, nextEvent>>
clock == <<tz, day, hour>>
scanState == <<runs, vaxLog, announced>>
ledger == <<weight_history, medications, nextMed, ai_queries>>
services == <<food_database, users, registrations, aiConfig>>

\* ------------------------------------------------------------------- clock
\* new Date().toISOString().split('T')[0]: the UTC calendar date of a local
\* wall-clock time.
ToISODate(d, h) == d + ((h - tz) \div 24)

UtcToday == ToISODate(day, hour)

\* date('now') of SQLite is the UTC date as well.
SqlDateNow == ToISODate(day, hour)

\* d.setDate(d.getDate() + n) keeps the local time of day.
AddDaysISO(n) == ToISODate(day + n, hour)

\* d.setMonth(d.getMonth() + n) in local time, then toISOString.
AddMonthsISO(n) ==
    ToISODate(MakeDate(getFullYear(day), getMonth(day) + n, getDate(day)), hour)

\* ------------------------------------------------- SQL three-valued compare
SqlLe(a, b) == a # NULL /\ b # NULL /\ a <= b
SqlLt(a, b) == a # NULL /\ b # NULL /\ a < b
SqlGe(a, b) == a # NULL /\ b # NULL /\ a >= b

\* COALESCE(?, column)
Coalesce(param, column) == IF param # NULL THEN param ELSE column

\* SQL NULL in the text column recurrence_pattern of the events table.
NoPattern == "NULL"

\* x || null: the falsy values of a text or number field ('' and 0) become NULL.
OrNull(x) == IF x = EMPTY \/ x = NULL THEN NULL ELSE x

EmptyTable == [id \in {} |-> NULL]

\* INSERT of one row, DELETE of a set of rows, UPDATE of one row.
Insert(table, id, row) == table @@ (id :> row)

Delete(table, ids) == [id \in DOMAIN table \ ids |-> table[id]]

Update(table, id, row) == [table EXCEPT ![id] = row]

\* A reply that carries a status and no view of the store.
Status(code) == [status |-> code, view |-> "none"]

NoResponse == Status(0)

\* A food name is a text over letters of either case, the blank and the
\* hyphen.
FoodChars == {"a", "A", " ", "-"}

\* populateFoodDatabase: the seeded foods, each under the id computed from
\* its name as foodRouter.post('/') computes it ('Peanut Butter' is stored
\* under 'peanut-butter').
SeedFoodNames == {<<"A", " ", "a">>}

\* String.prototype.toLowerCase on one character.
toLowerCase(c) == IF c = "A" THEN "a" ELSE c

\* text without its leading blanks.
RECURSIVE SkipBlanks(_)
SkipBlanks(text) ==
    IF text # <<>> /\ Head(text) = " " THEN SkipBlanks(Tail(text)) ELSE text

\* replace(/\s+/g, '-'): every run of blanks becomes one hyphen.
RECURSIVE ReplaceBlankRuns(_)
ReplaceBlankRuns(text) ==
    IF text = <<>> THEN <<>>
    ELSE IF Head(text) = " "
    THEN <<"-">> \o ReplaceBlankRuns(SkipBlanks(text))
    ELSE <<Head(text)>> \o ReplaceBlankRuns(Tail(text))

\* food_name.toLowerCase().replace(/\s+/g, '-')
FoodId(food_name) ==
    ReplaceBlankRuns([i \in 1..Len(food_name) |-> toLowerCase(food_name[i])])

SeedFoods ==
    [id \in {FoodId(n) : n \in SeedFoodNames} |->
        [food_name |-> CHOOSE n \in SeedFoodNames : FoodId(n) = id, is_safe |-> TRUE]]

\* The accounts of the users who send the requests.
RegisteredEmails == {"u1@pawcare", "u2@pawcare"}

\* The value of an absent body field or environment variable.
Undefined == "undefined"

\* The server as deployed: ANTHROPIC_API_KEY set, no DEFAULT_AI_PROVIDER.
DeployedConfig == [openai |-> FALSE, anthropic |-> TRUE, defaultProvider |-> Undefined]

InitServices ==
    /\ food_database = SeedFoods
    /\ users = RegisteredEmails
    /\ registrations = <<>>
    /\ aiConfig = DeployedConfig

Init ==
    /\ tz \in TzOffsets
    /\ day = StartDay
    /\ hour = 0
    /\ dogs = EmptyTable
    /\ vaccinations = EmptyTable
    /\ events = EmptyTable
    /\ nextDog = 1
    /\ nextVax = 1
    /\ nextEvent = 1
    /\ runs = <<>>
    /\ vaxLog = EmptyTable
    /\ announced = {}
    /\ response = NoResponse
    /\ weight_history = <<>>
    /\ medications = EmptyTable
    /\ nextMed = 1
    /\ ai_queries = <<>>
    /\ InitServices

\* A host that starts a callback whether or not one is running.
AlwaysIdle == TRUE

\* Node runs one callback at a time and every handler and the scan are
\* synchronous (better-sqlite3): a callback starts only when none is running.
JsThreadIdle == runs = <<>>

\* response holds a reply until the client has it; the model takes its next
\* step after that (Acknowledge), so a reply is always read against the
\* store and the clock it was computed from.
Delivered == response = NoResponse

Acknowledge ==
    /\ response # NoResponse
    /\ response' = NoResponse
    /\ UNCHANGED <<tz, day, hour, dogs, vaccinations, events,
                   nextDog, nextVax, nextEvent, runs, vaxLog, announced>>
    /\ UNCHANGED ledger
    /\ UNCHANGED services

\* ------------------------------------------------------------ input domains
\* Dates a client sends, placed on the boundaries of the windows the scan
\* and the views use on the days the clock passes through.
VaxDueInputs == {StartDay, StartDay + 1, StartDay + 8}

VaxDueEdits == {EMPTY, StartDay + 8}

EventDateInputs == {StartDay + 1}

EventDateEdits == {StartDay + 2}

LeadInputs == {0}

LeadEdits == {0, -1}

DobInputs == {MakeDate(2020, 1, 15)}

DogIdInputs == 1..MaxDogs
VaxIdInputs == 1..MaxVax
EventIdInputs == 1..MaxEvents

\* 'SELECT * FROM dogs WHERE id = ? AND user_id = ?'
OwnsDog(u, d) == d \in DOMAIN dogs /\ dogs[d].user_id = u

\* ------------------------------------------------------------- dogs router
\* The computation below with a roll forward that keeps the month of the
\* source and takes the last day of that month when the day does not exist.
AnniversaryClampedRoll(src) ==
    LET srcLocal == src + (tz \div 24)
        thisYear == MakeDate(getFullYear(day), getMonth(srcLocal), getDate(srcLocal))
        last == DaysInMonth(getFullYear(thisYear) + 1, getMonth(srcLocal))
        rolled == IF thisYear <= day
                  THEN MakeDate(getFullYear(thisYear) + 1, getMonth(srcLocal),
                                IF getDate(srcLocal) > last THEN last ELSE getDate(srcLocal))
                  ELSE thisYear
    IN  ToISODate(rolled, 0)

\* The anniversary computation of dogsRouter.post('/'): new Date(src) is UTC
\* midnight of src, read back through the local getters; the composed date
\* is local midnight and is compared with the current instant, which lies
\* after midnight of the current local day; the result is printed in UTC.
Anniversary(src) ==
    LET srcLocal == src + (tz \div 24)
        thisYear == MakeDate(getFullYear(day), getMonth(srcLocal), getDate(srcLocal))
        rolled == IF thisYear <= day
                  THEN MakeDate(getFullYear(thisYear) + 1, getMonth(thisYear), getDate(thisYear))
                  ELSE thisYear
    IN  ToISODate(rolled, 0)

\* An event like the one below that does not recur.
AnniversaryEventOnce(u, d, type, src) ==
    [user_id |-> u, dog_id |-> d, event_type |-> type,
     event_date |-> Anniversary(src), is_recurring |-> FALSE,
     recurrence_pattern |-> NoPattern,
     reminder_days_before |-> BirthdayReminderDays, is_active |-> TRUE]

AnniversaryEvent(u, d, type, src) ==
    [user_id |-> u, dog_id |-> d, event_type |-> type,
     event_date |-> Anniversary(src), is_recurring |-> TRUE,
     recurrence_pattern |-> "yearly",
     reminder_days_before |-> BirthdayReminderDays, is_active |-> TRUE]

PostDog(u, hasName, date_of_birth, adoption_date, weight) ==
    /\ JsThreadIdle
    /\ Delivered
    /\ IF ~hasName
       THEN /\ response' = Status(400)
            /\ UNCHANGED <<store, weight_history>>
       ELSE LET dogId == nextDog
                hasBirth == OrNull(date_of_birth) # NULL
                hasAdoption == OrNull(adoption_date) # NULL
                nEvents == (IF hasBirth THEN 1 ELSE 0) + (IF hasAdoption THEN 1 ELSE 0)
                e1 == IF hasBirth
                      THEN Insert(events, nextEvent,
                                  AnniversaryEvent(u, dogId, "birthday", date_of_birth))
                      ELSE events
                id2 == IF hasBirth THEN nextEvent + 1 ELSE nextEvent
                e2 == IF hasAdoption
                      THEN Insert(e1, id2,
                                  AnniversaryEvent(u, dogId, "adoption_anniversary", adoption_date))
                      ELSE e1
            IN  /\ nextDog <= MaxDogs
                /\ nEvents > 0 => nextEvent <= MaxEvents
                /\ OrNull(weight) # NULL => Len(weight_history) < MaxWeights
                /\ dogs' = Insert(dogs, dogId,
                                  [user_id |-> u, date_of_birth |-> OrNull(date_of_birth),
                                   adoption_date |-> OrNull(adoption_date),
                                   weight |-> OrNull(weight)])
                /\ nextDog' = nextDog + 1
                /\ weight_history' =
                        IF OrNull(weight) # NULL
                        THEN Append(weight_history, [dog_id |-> dogId, weight |-> weight])
                        ELSE weight_history
                /\ events' = e2
                /\ nextEvent' = nextEvent + nEvents
                /\ response' = Status(201)
                /\ UNCHANGED <<vaccinations, nextVax>>
    /\ UNCHANGED <<clock, scanState, medications, nextMed, ai_queries>>
    /\ UNCHANGED services

\* dogsRouter.put('/:id'): the row is read, every column is COALESCEd with
\* the body, and a truthy weight that differs from the row's is appended to
\* the weight history.  The handler writes no other table.
DogUpdate(row, date_of_birth, adoption_date, weight) ==
    [row EXCEPT !.date_of_birth = Coalesce(date_of_birth, @),
                !.adoption_date = Coalesce(adoption_date, @),
                !.weight = Coalesce(weight, @)]

PutDog(u, id, date_of_birth, adoption_date, weight) ==
    /\ JsThreadIdle
    /\ Delivered
    /\ IF ~OwnsDog(u, id)
       THEN /\ response' = Status(404)
            /\ UNCHANGED <<dogs, weight_history>>
       ELSE LET recorded == OrNull(weight) # NULL /\ weight # dogs[id].weight
            IN  /\ recorded => Len(weight_history) < MaxWeights
                /\ dogs' = Update(dogs, id,
                        DogUpdate(dogs[id], date_of_birth, adoption_date, weight))
                /\ weight_history' =
                        IF recorded
                        THEN Append(weight_history, [dog_id |-> id, weight |-> weight])
                        ELSE weight_history
                /\ response' = Status(200)
    /\ UNCHANGED <<clock, scanState, vaccinations, events, nextDog, nextVax, nextEvent,
                   medications, nextMed, ai_queries>>
    /\ UNCHANGED services

\* dogsRouter.post('/:id/weight')
PostWeight(u, id, weight) ==
    /\ JsThreadIdle
    /\ Delivered
    /\ IF ~OwnsDog(u, id)
       THEN /\ response' = Status(404)
            /\ UNCHANGED <<dogs, weight_history>>
       ELSE IF OrNull(weight) = NULL
       THEN /\ response' = Status(400)
            /\ UNCHANGED <<dogs, weight_history>>
       ELSE /\ Len(weight_history) < MaxWeights
            /\ weight_history' = Append(weight_history, [dog_id |-> id, weight |-> weight])
            /\ dogs' = Update(dogs, id, [dogs[id] EXCEPT !.weight = weight])
            /\ response' = Status(201)
    /\ UNCHANGED <<clock, scanState, vaccinations, events, nextDog, nextVax, nextEvent,
                   medications, nextMed, ai_queries>>
    /\ UNCHANGED services

\* ON DELETE CASCADE from dogs to vaccinations, ON DELETE SET NULL to events.
CascadeVaccinations(d) == {v \in DOMAIN vaccinations : vaccinations[v].dog_id = d}

CascadeMedications(d) == {m \in DOMAIN medications : medications[m].dog_id = d}

CascadeWeights(d) == SelectSeq(weight_history, LAMBDA w : w.dog_id # d)

SetNullEvents(d) ==
    [e \in DOMAIN events |->
        IF events[e].dog_id = d THEN [events[e] EXCEPT !.dog_id = NULL] ELSE events[e]]

DeleteDog(u, id) ==
    /\ JsThreadIdle
    /\ Delivered
    /\ IF ~OwnsDog(u, id)
       THEN /\ response' = Status(404)
            /\ UNCHANGED <<store, vaxLog, weight_history, medications>>
       ELSE /\ dogs' = Delete(dogs, {id})
            /\ vaccinations' = Delete(vaccinations, CascadeVaccinations(id))
            /\ vaxLog' = Delete(vaxLog, CascadeVaccinations(id))
            /\ weight_history' = CascadeWeights(id)
            /\ medications' = Delete(medications, CascadeMedications(id))
            /\ events' = SetNullEvents(id)
            /\ response' = Status(200)
            /\ UNCHANGED <<nextDog, nextVax, nextEvent>>
    /\ UNCHANGED <<clock, runs, announced, nextMed, ai_queries>>
    /\ UNCHANGED services

\* ----------------------------------------------------- vaccinations router
\* 'SELECT v.* FROM vaccinations v JOIN dogs d ... WHERE v.id = ? AND d.user_id = ?'
OwnsVaccination(u, v) ==
    v \in DOMAIN vaccinations /\ OwnsDog(u, vaccinations[v].dog_id)

\* An event like the one below with the default lead time of the events table.
CompanionEventDefaultLead(u, dog_id, next_due_date) ==
    [user_id |-> u, dog_id |-> dog_id, event_type |-> "vet_appointment",
     event_date |-> next_due_date, is_recurring |-> FALSE,
     recurrence_pattern |-> NoPattern,
     reminder_days_before |-> DefaultReminderDays, is_active |-> TRUE]

\* The event vaccinationsRouter.post('/') inserts for a vaccination with a
\* next_due_date; is_recurring and is_active take the defaults of the table.
CompanionEvent(u, dog_id, next_due_date) ==
    [user_id |-> u, dog_id |-> dog_id, event_type |-> "vet_appointment",
     event_date |-> next_due_date, is_recurring |-> FALSE,
     recurrence_pattern |-> NoPattern,
     reminder_days_before |-> VaccinationEventReminderDays, is_active |-> TRUE]

PostVaccination(u, dog_id, hasRequired, next_due_date) ==
    /\ JsThreadIdle
    /\ Delivered
    /\ IF ~hasRequired
       THEN /\ response' = Status(400)
            /\ UNCHANGED <<store, vaxLog>>
       ELSE IF ~OwnsDog(u, dog_id)
       THEN /\ response' = Status(404)
            /\ UNCHANGED <<store, vaxLog>>
       ELSE /\ nextVax <= MaxVax
            /\ OrNull(next_due_date) # NULL => nextEvent <= MaxEvents
            /\ vaccinations' = Insert(vaccinations, nextVax,
                    [dog_id |-> dog_id, next_due_date |-> OrNull(next_due_date),
                     reminder_sent |-> FALSE])
            /\ vaxLog' = Insert(vaxLog, nextVax, 0)
            /\ nextVax' = nextVax + 1
            /\ IF OrNull(next_due_date) # NULL
               THEN /\ events' = Insert(events, nextEvent,
                                         CompanionEvent(u, dog_id, next_due_date))
                    /\ nextEvent' = nextEvent + 1
               ELSE UNCHANGED <<events, nextEvent>>
            /\ response' = Status(201)
            /\ UNCHANGED <<dogs, nextDog>>
    /\ UNCHANGED <<clock, runs, announced>>
    /\ UNCHANGED ledger
    /\ UNCHANGED services

\* The same sequence inside a transaction: the failed INSERT INTO events
\* rolls the INSERT INTO vaccinations back.
PostVaccinationRolledBack(u, dog_id, next_due_date) ==
    /\ JsThreadIdle
    /\ Delivered
    /\ OwnsDog(u, dog_id)
    /\ OrNull(next_due_date) # NULL
    /\ response' = [status |-> 500, view |-> "vaccinations/post", vaccination |-> nextVax]
    /\ nextVax' = nextVax + 1
    /\ UNCHANGED <<clock, dogs, vaccinations, events, nextDog, nextEvent, scanState>>
    /\ UNCHANGED ledger
    /\ UNCHANGED services

\* vaccinationsRouter.post('/') on a store whose second write fails: the
\* INSERT INTO vaccinations has run, the INSERT INTO events throws, and the
\* catch block answers 500.  The two statements are not in a transaction.
PostVaccinationEventWriteFails(u, dog_id, next_due_date) ==
    /\ JsThreadIdle
    /\ Delivered
    /\ OwnsDog(u, dog_id)
    /\ OrNull(next_due_date) # NULL
    /\ nextVax <= MaxVax
    /\ vaccinations' = Insert(vaccinations, nextVax,
            [dog_id |-> dog_id, next_due_date |-> OrNull(next_due_date),
             reminder_sent |-> FALSE])
    /\ vaxLog' = Insert(vaxLog, nextVax, 0)
    /\ nextVax' = nextVax + 1
    /\ response' = [status |-> 500, view |-> "vaccinations/post", vaccination |-> nextVax]
    /\ UNCHANGED <<clock, dogs, events, nextDog, nextEvent, runs, announced>>
    /\ UNCHANGED ledger
    /\ UNCHANGED services

\* An UPDATE that clears reminder_sent when the body carries a next_due_date.
VaccinationUpdateRearm(row, next_due_date) ==
    [row EXCEPT !.next_due_date = Coalesce(next_due_date, @),
                !.reminder_sent = IF next_due_date # NULL THEN FALSE ELSE @]

\* The UPDATE of vaccinationsRouter.put('/:id'): every column it names is
\* COALESCEd with the body; reminder_sent is not among them.
VaccinationUpdate(row, next_due_date) ==
    [row EXCEPT !.next_due_date = Coalesce(next_due_date, @)]

PutVaccination(u, id, next_due_date) ==
    /\ JsThreadIdle
    /\ Delivered
    /\ IF ~OwnsVaccination(u, id)
       THEN /\ response' = Status(404)
            /\ UNCHANGED store
       ELSE /\ vaccinations' = Update(vaccinations, id,
                    VaccinationUpdate(vaccinations[id], next_due_date))
            /\ response' = Status(200)
            /\ UNCHANGED <<dogs, events, nextDog, nextVax, nextEvent>>
    /\ UNCHANGED <<clock, scanState>>
    /\ UNCHANGED ledger
    /\ UNCHANGED services

DeleteVaccination(u, id) ==
    /\ JsThreadIdle
    /\ Delivered
    /\ IF ~OwnsVaccination(u, id)
       THEN /\ response' = Status(404)
            /\ UNCHANGED <<store, vaxLog>>
       ELSE /\ vaccinations' = Delete(vaccinations, {id})
            /\ vaxLog' = Delete(vaxLog, {id})
            /\ response' = Status(200)
            /\ UNCHANGED <<dogs, events, nextDog, nextVax, nextEvent>>
    /\ UNCHANGED <<clock, runs, announced>>
    /\ UNCHANGED ledger
    /\ UNCHANGED services

\* ------------------------------------------------------------ events router
\* reminder_days_before || 1: a missing field and 0 both become 1.
OrDefault(x, dflt) == IF x = NULL \/ x = 0 THEN dflt ELSE x

PostEvent(u, dog_id, hasRequired, event_date, reminder_days_before) ==
    /\ JsThreadIdle
    /\ Delivered
    /\ IF ~hasRequired
       THEN /\ response' = Status(400)
            /\ UNCHANGED store
       ELSE IF dog_id # NULL /\ ~OwnsDog(u, dog_id)
       THEN /\ response' = Status(404)
            /\ UNCHANGED store
       ELSE /\ nextEvent <= MaxEvents
            /\ events' = Insert(events, nextEvent,
                    [user_id |-> u, dog_id |-> dog_id, event_type |-> "custom",
                     event_date |-> event_date, is_recurring |-> FALSE,
                     recurrence_pattern |-> NoPattern,
                     reminder_days_before |->
                         OrDefault(reminder_days_before, DefaultReminderDays),
                     is_active |-> TRUE])
            /\ nextEvent' = nextEvent + 1
            /\ response' = [status |-> 201, view |-> "events/post",
                            reminder_days_before |-> reminder_days_before,
                            event |-> nextEvent]
            /\ UNCHANGED <<dogs, vaccinations, nextDog, nextVax>>
    /\ UNCHANGED <<clock, scanState>>
    /\ UNCHANGED ledger
    /\ UNCHANGED services

\* 'SELECT * FROM events WHERE id = ? AND user_id = ?'
OwnsEvent(u, e) == e \in DOMAIN events /\ events[e].user_id = u

\* is_active !== undefined ? (is_active ? 1 : 0) : null, then COALESCE.
PutEvent(u, id, event_date, reminder_days_before, is_active) ==
    /\ JsThreadIdle
    /\ Delivered
    /\ IF ~OwnsEvent(u, id)
       THEN /\ response' = Status(404)
            /\ UNCHANGED <<store, announced>>
       ELSE /\ events' = Update(events, id,
                    [events[id] EXCEPT
                        !.event_date = Coalesce(event_date, @),
                        !.reminder_days_before = Coalesce(reminder_days_before, @),
                        !.is_active = IF is_active = NULL THEN @ ELSE is_active = 1])
            /\ announced' = announced \ {id}
            /\ response' = Status(200)
            /\ UNCHANGED <<dogs, vaccinations, nextDog, nextVax, nextEvent>>
    /\ UNCHANGED <<clock, runs, vaxLog>>
    /\ UNCHANGED ledger
    /\ UNCHANGED services

DeleteEvent(u, id) ==
    /\ JsThreadIdle
    /\ Delivered
    /\ IF ~OwnsEvent(u, id)
       THEN /\ response' = Status(404)
            /\ UNCHANGED <<store, announced>>
       ELSE /\ events' = Delete(events, {id})
            /\ announced' = announced \ {id}
            /\ response' = Status(200)
            /\ UNCHANGED <<dogs, vaccinations, nextDog, nextVax, nextEvent>>
    /\ UNCHANGED <<clock, runs, vaxLog>>
    /\ UNCHANGED ledger
    /\ UNCHANGED services

\* ------------------------------------------------------------ health router
\* An event like the one below with the default lead time of the events table.
MedicationEventDefaultLead(u, dog_id, start_date) ==
    [user_id |-> u, dog_id |-> dog_id, event_type |-> "medication",
     event_date |-> start_date, is_recurring |-> TRUE,
     recurrence_pattern |-> "frequency",
     reminder_days_before |-> DefaultReminderDays, is_active |-> TRUE]

\* The event healthRouter.post('/medication') inserts for a medication with
\* a frequency; its recurrence_pattern is the frequency text.
MedicationEvent(u, dog_id, start_date) ==
    [user_id |-> u, dog_id |-> dog_id, event_type |-> "medication",
     event_date |-> start_date, is_recurring |-> TRUE,
     recurrence_pattern |-> "frequency",
     reminder_days_before |-> MedicationReminderDays, is_active |-> TRUE]

\* healthRouter.post('/medication'): the medication row, and an event for
\* it when the body carries a frequency.
PostMedication(u, dog_id, hasRequired, start_date, hasFrequency) ==
    /\ JsThreadIdle
    /\ Delivered
    /\ IF ~hasRequired
       THEN /\ response' = Status(400)
            /\ UNCHANGED <<medications, nextMed, events, nextEvent>>
       ELSE IF ~OwnsDog(u, dog_id)
       THEN /\ response' = Status(404)
            /\ UNCHANGED <<medications, nextMed, events, nextEvent>>
       ELSE /\ nextMed <= MaxMeds
            /\ hasFrequency => nextEvent <= MaxEvents
            /\ medications' = Insert(medications, nextMed,
                    [dog_id |-> dog_id, start_date |-> start_date,
                     frequency |-> hasFrequency, is_active |-> TRUE])
            /\ nextMed' = nextMed + 1
            /\ IF hasFrequency
               THEN /\ events' = Insert(events, nextEvent,
                                         MedicationEvent(u, dog_id, start_date))
                    /\ nextEvent' = nextEvent + 1
               ELSE UNCHANGED <<events, nextEvent>>
            /\ response' = Status(201)
    /\ UNCHANGED <<clock, scanState, dogs, vaccinations, nextDog, nextVax,
                   weight_history, ai_queries>>
    /\ UNCHANGED services

\* ---------------------------------------------------------------- ai router
\* aiRouter.post('/ask'): the dog named in the body gives the question a
\* context when the caller owns it and is ignored otherwise; the provider
\* answers or fails; an answered question is saved with the dog_id of the
\* body.  The handler reads the dog before it awaits the provider and
\* writes after it; what it writes comes from the body alone.
PostAsk(u, hasQuestion, dog_id, answered) ==
    /\ JsThreadIdle
    /\ Delivered
    /\ IF ~hasQuestion
       THEN /\ response' = Status(400)
            /\ UNCHANGED ai_queries
       ELSE IF ~answered
       THEN /\ response' = Status(500)
            /\ UNCHANGED ai_queries
       ELSE /\ Len(ai_queries) < MaxQueries
            /\ ai_queries' = Append(ai_queries, [user_id |-> u, dog_id |-> dog_id])
            /\ response' =
                    [status |-> 200, view |-> "ai/ask", user |-> u, dog_id |-> dog_id,
                     dogContext |-> IF dog_id # NULL /\ OwnsDog(u, dog_id)
                                    THEN dog_id ELSE NULL]
    /\ UNCHANGED <<clock, store, scanState, weight_history, medications, nextMed>>
    /\ UNCHANGED services

\* The SELECT of aiRouter.get('/history') against a dogs table:
\* 'q.*, d.name as dog_name FROM ai_queries q LEFT JOIN dogs d ON
\* q.dog_id = d.id WHERE q.user_id = ?'.  dog_name is the name of the dog
\* with that id, whoever owns it; a dog's name is written as its id.
HistoryRows(u, dogsTable) ==
    LET mine == SelectSeq(ai_queries, LAMBDA q : q.user_id = u)
    IN  [i \in 1..Len(mine) |->
            [dog_id |-> mine[i].dog_id,
             dog_name |-> IF mine[i].dog_id \in DOMAIN dogsTable
                          THEN mine[i].dog_id ELSE NULL]]

GetHistory(u) ==
    /\ JsThreadIdle
    /\ Delivered
    /\ response' = [status |-> 200, view |-> "ai/history", user |-> u,
                    history |-> HistoryRows(u, dogs)]
    /\ UNCHANGED <<clock, store, scanState, ledger>>
    /\ UNCHANGED services

\* -------------------------------------------------------------- auth router
MaxRegistrations == 3

EmailInputs == {"u1@pawcare", "new@pawcare"}

\* 'SELECT id FROM users WHERE email = ?'
EmailRegistered(email) == email \in users

\* authRouter.post('/register') up to its await: 400 without the required
\* fields, 409 when the email is registered, else the handler suspends in
\* 'await bcrypt.hash(password, 10)' and other callbacks run.
RegisterReceive(email, hasRequired) ==
    /\ Len(registrations) < MaxRegistrations
    /\ registrations' = Append(registrations,
            IF ~hasRequired THEN [email |-> email, pc |-> "done", status |-> 400]
            ELSE IF EmailRegistered(email)
            THEN [email |-> email, pc |-> "done", status |-> 409]
            ELSE [email |-> email, pc |-> "hashing", status |-> 0])
    /\ UNCHANGED <<clock, store, scanState, response, ledger, food_database, users, aiConfig>>

\* The handler resumes with the hash: the INSERT INTO users, which the
\* UNIQUE constraint on email rejects with an exception when the email was
\* registered meanwhile; the catch block answers 500.
RegisterInsert(i) ==
    /\ i \in 1..Len(registrations)
    /\ registrations[i].pc = "hashing"
    /\ IF EmailRegistered(registrations[i].email)
       THEN /\ registrations' = [registrations EXCEPT ![i].pc = "done", ![i].status = 500]
            /\ UNCHANGED users
       ELSE /\ users' = users \cup {registrations[i].email}
            /\ registrations' = [registrations EXCEPT ![i].pc = "done", ![i].status = 201]
    /\ UNCHANGED <<clock, store, scanState, response, ledger, food_database, aiConfig>>

\* --------------------------------------------------------------- AI service
ProviderNames == {"openai", "anthropic"}

\* provider of the request body: absent, empty, a provider, or another name.
ProviderInputs == {Undefined, "", "openai", "anthropic", "gemini"}

\* DEFAULT_AI_PROVIDER of the environment, likewise.
DefaultProviderInputs == {Undefined, "", "openai", "anthropic", "gemini"}

\* a || b on texts: the absent and the empty text are falsy.
OrElse(a, b) == IF a \in {Undefined, ""} THEN b ELSE a

\* The provider AIService.askQuestion calls: selectedProvider and the
\* if / else if chain; "none" stands for the thrown 'No AI provider
\* configured'.
ChosenProvider(provider, config) ==
    LET selectedProvider == OrElse(provider, OrElse(config.defaultProvider, "anthropic"))
    IN  IF selectedProvider = "openai" /\ config.openai THEN "openai"
        ELSE IF selectedProvider = "anthropic" /\ config.anthropic THEN "anthropic"
        ELSE IF config.anthropic THEN "anthropic"
        ELSE IF config.openai THEN "openai"
        ELSE "none"

\* AIService.askQuestion for a request that names a provider; the answer
\* tells the provider that was called.
askQuestion(u, provider) ==
    /\ JsThreadIdle
    /\ Delivered
    /\ response' = [status |-> IF ChosenProvider(provider, aiConfig) = "none"
                               THEN 500 ELSE 200,
                    view |-> "ai/provider", requested |-> provider,
                    provider |-> ChosenProvider(provider, aiConfig)]
    /\ UNCHANGED <<clock, store, scanState, ledger, services>>

\* -------------------------------------------------------------- food router
MaxNameLen == 2

MaxFoods == 3

RECURSIVE Texts(_)
Texts(n) ==
    IF n = 0 THEN {<<>>}
    ELSE Texts(n - 1) \cup {Append(t, c) : t \in Texts(n - 1), c \in FoodChars}

\* The food names of the requests; the empty text is falsy.
FoodNameInputs == Texts(MaxNameLen) \cup SeedFoodNames

\* A lookup that never finds a row.
FoodExistsNever(id) == FALSE

\* 'SELECT id FROM food_database WHERE id = ?'
FoodExists(id) == id \in DOMAIN food_database

\* food_name TEXT UNIQUE: a row with this very name is stored.
FoodNameTaken(food_name) ==
    \E f \in DOMAIN food_database : food_database[f].food_name = food_name

\* foodRouter.post('/'): 400 without the required fields, 409 when a row has
\* the id computed from the name, else the INSERT; an INSERT the table
\* rejects throws and answers 500.
PostFood(u, food_name, hasRequired, is_safe) ==
    /\ JsThreadIdle
    /\ Delivered
    /\ IF food_name = <<>> \/ ~hasRequired
       THEN /\ response' = [status |-> 400, view |-> "food/post", food_name |-> food_name]
            /\ UNCHANGED food_database
       ELSE IF FoodExists(FoodId(food_name))
       THEN /\ response' = [status |-> 409, view |-> "food/post", food_name |-> food_name]
            /\ UNCHANGED food_database
       ELSE IF FoodNameTaken(food_name)
       THEN /\ response' = [status |-> 500, view |-> "food/post", food_name |-> food_name]
            /\ UNCHANGED food_database
       ELSE /\ Cardinality(DOMAIN food_database) < MaxFoods
            /\ food_database' = Insert(food_database, FoodId(food_name),
                                       [food_name |-> food_name, is_safe |-> is_safe])
            /\ response' = [status |-> 201, view |-> "food/post", food_name |-> food_name]
    /\ UNCHANGED <<clock, store, scanState, ledger, users, registrations, aiConfig>>

\* -------------------------------------------------------------------- views
DogsOf(u) == {d \in DOMAIN dogs : dogs[d].user_id = u}

\* vaccinationsRouter.get('/dog/:dogId'): "upcoming" has no upper bound.
DogUpcoming(d, today) ==
    {v \in DOMAIN vaccinations :
        vaccinations[v].dog_id = d /\ SqlGe(vaccinations[v].next_due_date, today)}

DogOverdue(d, today) ==
    {v \in DOMAIN vaccinations :
        /\ vaccinations[v].dog_id = d
        /\ SqlLt(vaccinations[v].next_due_date, today)
        /\ vaccinations[v].next_due_date # NULL}

GetVaccinationsForDog(u, dogId) ==
    /\ JsThreadIdle
    /\ Delivered
    /\ IF ~OwnsDog(u, dogId)
       THEN response' = Status(404)
       ELSE response' =
                [status |-> 200, view |-> "vaccinations/dog", user |-> u,
                 upcoming |-> DogUpcoming(dogId, UtcToday),
                 overdue |-> DogOverdue(dogId, UtcToday)]
    /\ UNCHANGED <<clock, store, scanState>>
    /\ UNCHANGED ledger
    /\ UNCHANGED services

\* The SELECT of upcoming with 'v.next_due_date < ?' for the end of the window.
UserUpcomingOpenEnd(u, today, until) ==
    {v \in DOMAIN vaccinations :
        /\ OwnsDog(u, vaccinations[v].dog_id)
        /\ SqlGe(vaccinations[v].next_due_date, today)
        /\ SqlLt(vaccinations[v].next_due_date, until)}

\* vaccinationsRouter.get('/upcoming')
UserUpcoming(u, today, until) ==
    {v \in DOMAIN vaccinations :
        /\ OwnsDog(u, vaccinations[v].dog_id)
        /\ SqlGe(vaccinations[v].next_due_date, today)
        /\ SqlLe(vaccinations[v].next_due_date, until)}

UserOverdue(u, today) ==
    {v \in DOMAIN vaccinations :
        /\ OwnsDog(u, vaccinations[v].dog_id)
        /\ SqlLt(vaccinations[v].next_due_date, today)
        /\ vaccinations[v].next_due_date # NULL}

GetVaccinationsUpcoming(u) ==
    /\ JsThreadIdle
    /\ Delivered
    /\ response' =
            [status |-> 200, view |-> "vaccinations/upcoming", user |-> u,
             upcoming |-> UserUpcoming(u, UtcToday,
                                       AddMonthsISO(VaccinationsDashboardMonths)),
             overdue |-> UserOverdue(u, UtcToday)]
    /\ UNCHANGED <<clock, store, scanState>>
    /\ UNCHANGED ledger
    /\ UNCHANGED services

\* eventsRouter.get('/upcoming')
EventsUpcoming(u, today, until) ==
    {e \in DOMAIN events :
        /\ events[e].user_id = u
        /\ events[e].is_active
        /\ SqlGe(events[e].event_date, today)
        /\ SqlLe(events[e].event_date, until)}

EventsToday(u, today) ==
    {e \in DOMAIN events :
        events[e].user_id = u /\ events[e].is_active /\ events[e].event_date = today}

GetEventsUpcoming(u) ==
    /\ JsThreadIdle
    /\ Delivered
    /\ response' =
            [status |-> 200, view |-> "events/upcoming", user |-> u,
             upcoming |-> EventsUpcoming(u, UtcToday, AddDaysISO(EventsDashboardDays)),
             today |-> EventsToday(u, UtcToday)]
    /\ UNCHANGED <<clock, store, scanState>>
    /\ UNCHANGED ledger
    /\ UNCHANGED services

\* healthRouter.get('/summary'): COUNT(*) per dog of the user.
SummaryUpcoming(d) ==
    Cardinality({v \in DOMAIN vaccinations :
        /\ vaccinations[v].dog_id = d
        /\ SqlGe(vaccinations[v].next_due_date, SqlDateNow)
        /\ SqlLe(vaccinations[v].next_due_date, SqlDateNow + SummaryUpcomingDays)})

SummaryOverdue(d) ==
    Cardinality({v \in DOMAIN vaccinations :
        /\ vaccinations[v].dog_id = d
        /\ SqlLt(vaccinations[v].next_due_date, SqlDateNow)
        /\ vaccinations[v].next_due_date # NULL})

GetHealthSummary(u) ==
    /\ JsThreadIdle
    /\ Delivered
    /\ response' =
            [status |-> 200, view |-> "health/summary", user |-> u,
             summaries |-> [d \in DogsOf(u) |->
                 [upcoming_vaccinations |-> SummaryUpcoming(d),
                  overdue_vaccinations |-> SummaryOverdue(d)]]]
    /\ UNCHANGED <<clock, store, scanState>>
    /\ UNCHANGED ledger
    /\ UNCHANGED services

\* --------------------------------------------------------------- scheduler
\* The same SELECT without 'AND v.reminder_sent = 0'.
UpcomingVaccinationsAnyFlag(today, reminderDate) ==
    {v \in DOMAIN vaccinations :
        /\ vaccinations[v].dog_id \in DOMAIN dogs
        /\ SqlLe(vaccinations[v].next_due_date, reminderDate)
        /\ SqlGe(vaccinations[v].next_due_date, today)}

\* The same SELECT with 'v.next_due_date < ?' for the end of the window.
UpcomingVaccinationsOpenEnd(today, reminderDate) ==
    {v \in DOMAIN vaccinations :
        /\ vaccinations[v].dog_id \in DOMAIN dogs
        /\ SqlLt(vaccinations[v].next_due_date, reminderDate)
        /\ SqlGe(vaccinations[v].next_due_date, today)
        /\ ~vaccinations[v].reminder_sent}

\* The SELECT of checkVaccinationReminders; every vaccination has its dog
\* (foreign key with cascade), so the JOIN keeps every row.
UpcomingVaccinations(today, reminderDate) ==
    {v \in DOMAIN vaccinations :
        /\ vaccinations[v].dog_id \in DOMAIN dogs
        /\ SqlLe(vaccinations[v].next_due_date, reminderDate)
        /\ SqlGe(vaccinations[v].next_due_date, today)
        /\ ~vaccinations[v].reminder_sent}

\* date(?, '+' || reminder_days_before || ' days'): '+-1 days' is not a
\* modifier SQLite accepts, and date() then yields NULL.
DateModifier(today, n) == IF n < 0 THEN NULL ELSE today + n

\* The same SELECT, leaving out the events the previous run announced.
UpcomingEventsOnce(today) ==
    {e \in DOMAIN events \ announced :
        /\ events[e].is_active
        /\ SqlGe(events[e].event_date, today)
        /\ SqlLe(events[e].event_date,
                 DateModifier(today, events[e].reminder_days_before))}

\* The same SELECT without 'e.is_active = 1'.
UpcomingEventsInactiveToo(today) ==
    {e \in DOMAIN events :
        /\ SqlGe(events[e].event_date, today)
        /\ SqlLe(events[e].event_date,
                 DateModifier(today, events[e].reminder_days_before))}

\* The SELECT of checkEventReminders (LEFT JOIN: events without a dog stay).
UpcomingEvents(today) ==
    {e \in DOMAIN events :
        /\ events[e].is_active
        /\ SqlGe(events[e].event_date, today)
        /\ SqlLe(events[e].event_date,
                 DateModifier(today, events[e].reminder_days_before))}

Flagged == {v \in DOMAIN vaccinations : vaccinations[v].reminder_sent}

RemoveAt(seq, i) == SubSeq(seq, 1, i - 1) \o SubSeq(seq, i + 1, Len(seq))

\* cron.schedule('0 9 * * *', ...): the clock reaches 9:00 local time; the
\* callback starts, when no callback is running, with the query of
\* checkVaccinationReminders.
CronTrigger ==
    /\ Delivered
    /\ hour = 0
    /\ hour' = CronHour
    /\ IF JsThreadIdle
       THEN runs' = Append(runs,
                    [today |-> ToISODate(day, CronHour),
                     pending |-> UpcomingVaccinations(
                                     ToISODate(day, CronHour),
                                     ToISODate(day + VaccinationLookaheadDays, CronHour)),
                     flaggedAtStart |-> Flagged,
                     reminded |-> {}])
       ELSE UNCHANGED runs
    /\ UNCHANGED <<tz, day, store, vaxLog, announced, response>>
    /\ UNCHANGED ledger
    /\ UNCHANGED services

\* console.log of one REMINDER line
LogReminder(v) ==
    [x \in DOMAIN vaxLog |-> IF x = v THEN vaxLog[x] + 1 ELSE vaxLog[x]]

\* The same UPDATE without 'WHERE id = ?'.
MarkEveryReminderSent(v) ==
    [x \in DOMAIN vaccinations |-> [vaccinations[x] EXCEPT !.reminder_sent = TRUE]]

\* 'UPDATE vaccinations SET reminder_sent = 1 WHERE id = ?'
MarkReminderSent(v) ==
    [x \in DOMAIN vaccinations |->
        IF x = v THEN [vaccinations[x] EXCEPT !.reminder_sent = TRUE]
        ELSE vaccinations[x]]

\* One iteration of the for loop of checkVaccinationReminders; the rows come
\* in no specified order.
VaccinationReminderStep(i) ==
    /\ Delivered
    /\ i \in 1..Len(runs)
    /\ \E v \in runs[i].pending :
          /\ vaxLog' = LogReminder(v)
          /\ vaccinations' = MarkReminderSent(v)
          /\ runs' = [runs EXCEPT ![i].pending = @ \ {v},
                                  ![i].reminded = @ \cup {v}]
    /\ UNCHANGED <<clock, dogs, events, nextDog, nextVax, nextEvent,
                   announced, response>>
    /\ UNCHANGED ledger
    /\ UNCHANGED services

\* checkEventReminders, called when checkVaccinationReminders has returned;
\* it reads the clock again.  The callback ends with it.
checkEventReminders(i) ==
    /\ Delivered
    /\ i \in 1..Len(runs)
    /\ runs[i].pending = {}
    /\ announced' = UpcomingEvents(UtcToday)
    /\ runs' = RemoveAt(runs, i)
    /\ UNCHANGED <<clock, store, vaxLog, response>>
    /\ UNCHANGED ledger
    /\ UNCHANGED services

\* The UPDATE of one iteration throws (store failure): the line was logged,
\* the exception leaves the loop, checkVaccinationReminders and the cron
\* callback; nothing catches it before checkEventReminders would be called.
VaccinationReminderWriteFails(i) ==
    /\ Delivered
    /\ i \in 1..Len(runs)
    /\ \E v \in runs[i].pending : vaxLog' = LogReminder(v)
    /\ announced' = {}
    /\ runs' = RemoveAt(runs, i)
    /\ UNCHANGED <<clock, store, response>>
    /\ UNCHANGED ledger
    /\ UNCHANGED services

\* The wall clock moves on from 9:00 to 0:00 of the next day.
ClockTick ==
    /\ Delivered
    /\ hour = CronHour
    /\ day < StartDay + MaxDays
    /\ hour' = 0
    /\ day' = day + 1
    /\ UNCHANGED <<tz, store, scanState, response>>
    /\ UNCHANGED ledger
    /\ UNCHANGED services

\* ------------------------------------------------------------ specification
Opt(S) == S \cup {NULL}

Requests ==
    \/ \E u \in DogCreators, n \in BOOLEAN, b \in Opt(DobInputs) :
           PostDog(u, n, b, NULL, NULL)
    \/ \E u \in Users :
        \/ \E d \in DogIdInputs : DeleteDog(u, d)
        \/ \E d \in DogIdInputs, ok \in BOOLEAN, due \in Opt(VaxDueInputs) \cup {EMPTY} :
               PostVaccination(u, d, ok, due)
        \/ \E v \in VaxIdInputs, due \in Opt(VaxDueEdits) :
               PutVaccination(u, v, due)
        \/ \E v \in VaxIdInputs : DeleteVaccination(u, v)
        \/ \E d \in Opt(DogIdInputs), ok \in BOOLEAN, dt \in EventDateInputs,
                 n \in Opt(LeadInputs) :
               PostEvent(u, d, ok, dt, n)
        \/ \E e \in EventIdInputs, dt \in Opt(EventDateEdits),
                 n \in Opt(LeadEdits), act \in {NULL, 0, 1} :
               PutEvent(u, e, dt, n, act)
        \/ \E e \in EventIdInputs : DeleteEvent(u, e)
        \/ \E d \in DogIdInputs : GetVaccinationsForDog(u, d)
        \/ GetVaccinationsUpcoming(u)
        \/ GetEventsUpcoming(u)
        \/ GetHealthSummary(u)

Scan ==
    \/ CronTrigger
    \/ \E i \in 1..Len(runs) : VaccinationReminderStep(i)
    \/ \E i \in 1..Len(runs) : checkEventReminders(i)

Next == Requests \/ Acknowledge \/ Scan \/ ClockTick

Spec == Init /\ [][Next]_vars

\* The same program on a store whose writes may fail.
NextFault == Next \/ \E i \in 1..Len(runs) : VaccinationReminderWriteFails(i)

SpecFault == Init /\ [][NextFault]_vars

\* The scan on a server where it runs once on every day and ends before
\* midnight, with vaccinations logged before and after it whose next due
\* date is not before the day they are logged.
ClockTickAfterScan == JsThreadIdle /\ ClockTick

NextDaily ==
    \/ \E u \in DogCreators : PostDog(u, TRUE, NULL, NULL, NULL)
    \/ \E u \in DogCreators, d \in DogIdInputs,
             due \in {x \in VaxDueInputs : x >= UtcToday} :
           PostVaccination(u, d, TRUE, due)
    \/ Acknowledge
    \/ CronTrigger
    \/ \E i \in 1..Len(runs) : VaccinationReminderStep(i)
    \/ \E i \in 1..Len(runs) : checkEventReminders(i)
    \/ ClockTickAfterScan

SpecDaily == Init /\ [][NextDaily]_vars

\* The request handlers, without the scan, on a store whose write of the
\* companion event may fail.
NextPartial ==
    \/ Requests
    \/ Acknowledge
    \/ \E u \in Users, d \in DogIdInputs, due \in VaxDueInputs :
           PostVaccinationEventWriteFails(u, d, due)

SpecPartial == Init /\ [][NextPartial]_vars

\* The views alone, applied to stores of one dog with one vaccination and one
\* event whose dates lie around the ends of the windows, at clock readings
\* on either side of the UTC date line.
ViewHours == {0, CronHour, 23}

ViewTzOffsets == {-1, 0, 1}

ViewDays == {StartDay, MakeDate(2024, 11, 30)}

AroundWindow(from, until) ==
    {from - 1, from, from + 1, until - 1, until, until + 1}

InitViews ==
    /\ tz \in ViewTzOffsets
    /\ day \in ViewDays
    /\ hour \in ViewHours
    /\ dogs = (1 :> [user_id |-> "u1", date_of_birth |-> NULL, adoption_date |-> NULL,
                       weight |-> NULL])
    /\ \E due \in AroundWindow(UtcToday, AddMonthsISO(VaccinationsDashboardMonths))
                   \cup {NULL, EMPTY} :
          vaccinations = (1 :> [dog_id |-> 1, next_due_date |-> due,
                                reminder_sent |-> FALSE])
    /\ \E dt \in {UtcToday - 1, UtcToday, AddDaysISO(EventsDashboardDays),
                   AddDaysISO(EventsDashboardDays) + 1}, act \in BOOLEAN :
          events = (1 :> [user_id |-> "u1", dog_id |-> NULL, event_type |-> "custom",
                          event_date |-> dt, is_recurring |-> FALSE,
                          recurrence_pattern |-> NoPattern,
                          reminder_days_before |-> DefaultReminderDays,
                          is_active |-> act])
    /\ nextDog = 2
    /\ nextVax = 2
    /\ nextEvent = 2
    /\ runs = <<>>
    /\ vaxLog = (1 :> 0)
    /\ announced = {}
    /\ response = NoResponse
    /\ weight_history = <<>>
    /\ medications = EmptyTable
    /\ nextMed = 1
    /\ ai_queries = <<>>
    /\ InitServices

NextViews ==
    \/ \E u \in Users : GetVaccinationsUpcoming(u)
    \/ \E u \in Users : GetEventsUpcoming(u)
    \/ Acknowledge

SpecViews == InitViews /\ [][NextViews]_vars

\* The anniversary computation alone: one dog is created with a date of birth
\* or an adoption date whose anniversary lies before, on and after the current
\* day, in the middle and at the end of a year, on servers west of, at and
\* east of UTC.
AnniversaryDays ==
    {MakeDate(2024, 1, 15), MakeDate(2024, 12, 31), MakeDate(2025, 2, 1),
     MakeDate(2025, 6, 1)}

AnniversarySources ==
    {MakeDate(2020, 1, 10), MakeDate(2020, 1, 14), MakeDate(2020, 1, 15),
     MakeDate(2020, 1, 16), MakeDate(2020, 2, 29), MakeDate(2020, 12, 30),
     MakeDate(2020, 12, 31), MakeDate(2021, 1, 1)}

InitAnniversary ==
    /\ tz \in ViewTzOffsets
    /\ day \in AnniversaryDays
    /\ hour \in HourSlots
    /\ dogs = EmptyTable
    /\ vaccinations = EmptyTable
    /\ events = EmptyTable
    /\ nextDog = 1
    /\ nextVax = 1
    /\ nextEvent = 1
    /\ runs = <<>>
    /\ vaxLog = EmptyTable
    /\ announced = {}
    /\ response = NoResponse
    /\ weight_history = <<>>
    /\ medications = EmptyTable
    /\ nextMed = 1
    /\ ai_queries = <<>>
    /\ InitServices

NextAnniversary ==
    \/ \E u \in DogCreators, b \in AnniversarySources :
           PostDog(u, TRUE, b, NULL, NULL)
    \/ \E u \in DogCreators, a \in AnniversarySources :
           PostDog(u, TRUE, NULL, a, NULL)
    \/ Acknowledge

SpecAnniversary == InitAnniversary /\ [][NextAnniversary]_vars

\* The profile, health and assistant handlers on a server whose clock stands
\* still: dogs with their dates and weight, vaccinations, medications, weight
\* entries, questions to the assistant and the history of those questions.
AdoptionInputs == {MakeDate(2022, 6, 1)}

DobEdits == {MakeDate(2021, 3, 5)}

WeightInputs == {5}

WeightEdits == {0, 5, 7}

WeightEntries == {0, 7}

MedicationStartInputs == {StartDay}

RecordVaxDueInputs == {StartDay + 8}

NextRecords ==
    \/ \E u \in DogCreators, n \in BOOLEAN, b \in Opt(DobInputs), a \in Opt(AdoptionInputs),
             w \in Opt(WeightInputs) :
           PostDog(u, n, b, a, w)
    \/ \E u \in Users, d \in DogIdInputs, b \in Opt(DobEdits), w \in Opt(WeightEdits) :
           PutDog(u, d, b, NULL, w)
    \/ \E u \in Users, d \in DogIdInputs : DeleteDog(u, d)
    \/ \E u \in Users, d \in DogIdInputs, w \in WeightEntries : PostWeight(u, d, w)
    \/ \E u \in Users, d \in DogIdInputs, ok \in BOOLEAN, due \in Opt(RecordVaxDueInputs) :
           PostVaccination(u, d, ok, due)
    \/ \E u \in Users, d \in DogIdInputs, ok \in BOOLEAN, st \in MedicationStartInputs,
             f \in BOOLEAN :
           PostMedication(u, d, ok, st, f)
    \/ \E u \in Users, q \in BOOLEAN, d \in Opt(DogIdInputs), ok \in BOOLEAN :
           PostAsk(u, q, d, ok)
    \/ \E u \in Users : GetHistory(u)
    \/ Acknowledge

SpecRecords == Init /\ [][NextRecords]_vars

\* The choice of provider alone, under every configuration of the service.
InitProviders ==
    /\ tz = 0
    /\ day = StartDay
    /\ hour = 0
    /\ dogs = EmptyTable
    /\ vaccinations = EmptyTable
    /\ events = EmptyTable
    /\ nextDog = 1
    /\ nextVax = 1
    /\ nextEvent = 1
    /\ runs = <<>>
    /\ vaxLog = EmptyTable
    /\ announced = {}
    /\ response = NoResponse
    /\ weight_history = <<>>
    /\ medications = EmptyTable
    /\ nextMed = 1
    /\ ai_queries = <<>>
    /\ food_database = SeedFoods
    /\ users = RegisteredEmails
    /\ registrations = <<>>
    /\ aiConfig \in [openai : BOOLEAN, anthropic : BOOLEAN,
                      defaultProvider : DefaultProviderInputs]

NextProviders ==
    \/ \E u \in Users, provider \in ProviderInputs : askQuestion(u, provider)
    \/ Acknowledge

SpecProviders == InitProviders /\ [][NextProviders]_vars

\* Registration alone: requests arrive while earlier ones are suspended.
NextAuth ==
    \/ \E email \in EmailInputs, ok \in BOOLEAN : RegisterReceive(email, ok)
    \/ \E i \in 1..MaxRegistrations : RegisterInsert(i)

SpecAuth == Init /\ [][NextAuth]_vars

\* The food catalogue alone: any user adds foods.
NextFood ==
    \/ \E u \in Users, n \in FoodNameInputs, ok \in BOOLEAN, safe \in BOOLEAN :
           PostFood(u, n, ok, safe)
    \/ Acknowledge

SpecFood == Init /\ [][NextFood]_vars

\* -------------------------------------------------------------- properties
\* A stored next_due_date / event_date that is a calendar date.
IsDate(d) == d # NULL /\ d # EMPTY

\* target lies in [today, today + n], both ends included.
InWindow(target, today, n) ==
    IsDate(target) /\ today <= target /\ target <= today + n

\* The step with which the run of frame i ends.
RunEnds(i) == i \in 1..Len(runs) /\ runs' = RemoveAt(runs, i)

\* C1: the reminder flag is one-way: no step of any operation (scan step,
\* vaccination update with or without a new next-due date, any other
\* request) takes a stored vaccination from reminder_sent = true to false.
C1_ReminderFlagOneWay ==
    [][\A v \in DOMAIN vaccinations \cap DOMAIN vaccinations' :
          vaccinations[v].reminder_sent => vaccinations'[v].reminder_sent]_vars

\* A vaccination the scan has reminded and flagged, whose next-due date an
\* update has changed since (to the empty text), still flagged.
C1_FlaggedThenUpdated ==
    \E v \in DOMAIN vaccinations :
        /\ vaccinations[v].reminder_sent
        /\ vaxLog[v] = 1
        /\ vaccinations[v].next_due_date = EMPTY

\* C2: over any number of scan runs, no vaccination gets more than one
\* REMINDER line: once reminded, it is left out of every later run.
C2_AtMostOneReminder == \A v \in DOMAIN vaxLog : vaxLog[v] <= 1

\* A later run in progress whose window holds a vaccination that an earlier
\* run reminded: the run has not selected it.
C2_RemindedLeftOutLater ==
    /\ Len(runs) = 1
    /\ \E v \in DOMAIN vaccinations :
          /\ v \in runs[1].flaggedAtStart
          /\ vaxLog[v] = 1
          /\ InWindow(vaccinations[v].next_due_date, runs[1].today,
                      VaccinationLookaheadDays)
          /\ v \notin runs[1].pending \cup runs[1].reminded

\* C3: when a run ends, the vaccinations it has reminded are exactly those
\* whose next-due date lay in [today, today + 7] and whose flag was unset
\* when the run started, and each of them has reminder_sent = true.
C3_RemindsExactlyDueUnflagged ==
    [][\A i \in 1..Len(runs) :
          RunEnds(i) =>
            /\ runs[i].reminded =
                 {v \in DOMAIN vaccinations :
                     /\ InWindow(vaccinations[v].next_due_date, runs[i].today,
                                 VaccinationLookaheadDays)
                     /\ v \notin runs[i].flaggedAtStart}
            /\ \A v \in runs[i].reminded : vaccinations'[v].reminder_sent]_vars

\* A run about to end that has reminded and flagged a vaccination due on the
\* last day of its window, while another vaccination, due before today or
\* after the window, stays unreminded.
C3_RemindedAtWindowEnd ==
    /\ Len(runs) = 1
    /\ runs[1].pending = {}
    /\ \E v \in runs[1].reminded :
          /\ vaccinations[v].next_due_date = runs[1].today + VaccinationLookaheadDays
          /\ vaccinations[v].reminder_sent
    /\ \E w \in DOMAIN vaccinations \ runs[1].flaggedAtStart :
          /\ IsDate(vaccinations[w].next_due_date)
          /\ w \notin runs[1].reminded

\* C4: the event pass of a run announces again every event the previous
\* pass announced, as long as the event is still active and its date has
\* not passed.
C4_EventReannouncedUntilPassed ==
    [][\A i \in 1..Len(runs) :
          RunEnds(i) =>
            \A e \in announced \cap DOMAIN events :
                (events[e].is_active /\ events[e].event_date >= UtcToday)
                    => e \in announced']_vars

\* The run of the next day has reached its event pass with an event the
\* previous day's pass announced, still active and not yet past.
C4_AnnouncedEventDueAgain ==
    /\ Len(runs) = 1
    /\ runs[1].pending = {}
    /\ day = StartDay + 1
    /\ runs[1].today = UtcToday
    /\ \E e \in announced \cap DOMAIN events :
          events[e].is_active /\ events[e].event_date >= UtcToday

\* C5: the event pass announces exactly the active events whose date lies in
\* [today, today + the event's own reminder_days_before].
C5_EventPassExactlyActiveInWindow ==
    [][\A i \in 1..Len(runs) :
          RunEnds(i) =>
            announced' =
                {e \in DOMAIN events :
                    /\ events[e].is_active
                    /\ InWindow(events[e].event_date, UtcToday,
                                events[e].reminder_days_before)}]_vars

\* An event pass has announced an event on the last day of its own window.
C5_AnnouncedAtOwnWindowEnd ==
    /\ runs = <<>>
    /\ hour = CronHour
    /\ \E e \in announced \cap DOMAIN events :
          /\ events[e].reminder_days_before > 0
          /\ events[e].event_date = UtcToday + events[e].reminder_days_before

\* An inactive event with its date inside its window, after an event pass
\* that has not announced it.
C5_InactiveEventNotAnnounced ==
    /\ runs = <<>>
    /\ hour = CronHour
    /\ \E e \in DOMAIN events \ announced :
          /\ ~events[e].is_active
          /\ InWindow(events[e].event_date, UtcToday, events[e].reminder_days_before)

\* C6: when a run ends, at most the one vaccination whose record failed is
\* left unreminded among those the run selected, and the event reminders of
\* the run have been emitted.
C6_FailureDoesNotAbortRun ==
    [][\A i \in 1..Len(runs) :
          RunEnds(i) =>
            /\ Cardinality(runs[i].pending) <= 1
            /\ announced' =
                 {e \in DOMAIN events :
                     /\ events[e].is_active
                     /\ InWindow(events[e].event_date, UtcToday,
                                 events[e].reminder_days_before)}]_vars

C8_ScanTouchesOnlyReminderFlag ==
    [][runs' # runs =>
          /\ dogs' = dogs
          /\ events' = events
          /\ DOMAIN vaccinations' = DOMAIN vaccinations
          /\ \A v \in DOMAIN vaccinations :
                \/ vaccinations'[v] = vaccinations[v]
                \/ /\ vaxLog'[v] = vaxLog[v] + 1
                   /\ vaccinations'[v] =
                        [vaccinations[v] EXCEPT !.reminder_sent = TRUE]]_vars

\* A run in progress has flagged one vaccination and left another, unflagged
\* one as it was, with the user's event in the store.
C8_FlaggedOneLeftOther ==
    /\ Len(runs) = 1
    /\ events # EmptyTable
    /\ \E v \in runs[1].reminded, w \in DOMAIN vaccinations :
          /\ vaccinations[v].reminder_sent
          /\ ~vaccinations[w].reminder_sent

\* C9: in the user-wide vaccination view, a vaccination of the user that has
\* a next-due date is overdue exactly when that date is before today (so
\* never when it is today) and upcoming exactly when it lies in [today, end
\* of the window]; in the events view, an active event of the user is
\* upcoming exactly when its date lies in [today, today + 30].  Today is the
\* UTC date, the end of the window the one the view computes.
C9_ClassifierBoundaries ==
    /\ response.view = "vaccinations/upcoming" =>
          \A v \in DOMAIN vaccinations :
              (OwnsDog(response.user, vaccinations[v].dog_id)
                  /\ IsDate(vaccinations[v].next_due_date)) =>
                LET target == vaccinations[v].next_due_date
                    n == AddMonthsISO(VaccinationsDashboardMonths) - UtcToday
                IN  /\ v \in response.overdue <=> target < UtcToday
                    /\ v \in response.upcoming <=> InWindow(target, UtcToday, n)
    /\ response.view = "events/upcoming" =>
          \A e \in DOMAIN events :
              (events[e].user_id = response.user /\ events[e].is_active) =>
                (e \in response.upcoming <=>
                    InWindow(events[e].event_date, UtcToday, EventsDashboardDays))

\* The vaccination view lists a vaccination due on the last day of the
\* window as upcoming.
C9_UpcomingAtWindowEnd ==
    /\ response.view = "vaccinations/upcoming"
    /\ \E v \in response.upcoming :
          vaccinations[v].next_due_date = AddMonthsISO(VaccinationsDashboardMonths)

\* C10: a vaccination without a next-due date is in no overdue or upcoming
\* list, is counted in no overdue or upcoming count, and is in no run of
\* the scan.
C10_NoDateNeverClassified ==
    LET NoDate == {v \in DOMAIN vaccinations :
                      ~IsDate(vaccinations[v].next_due_date)}
    IN  /\ \A i \in 1..Len(runs) :
              NoDate \cap (runs[i].pending \cup runs[i].reminded) = {}
        /\ response.view \in {"vaccinations/dog", "vaccinations/upcoming"} =>
              NoDate \cap (response.overdue \cup response.upcoming) = {}
        /\ response.view = "health/summary" =>
              \A d \in DOMAIN response.summaries :
                  /\ response.summaries[d].overdue_vaccinations =
                        Cardinality({v \in DOMAIN vaccinations :
                            /\ vaccinations[v].dog_id = d
                            /\ IsDate(vaccinations[v].next_due_date)
                            /\ vaccinations[v].next_due_date < SqlDateNow})
                  /\ response.summaries[d].upcoming_vaccinations =
                        Cardinality({v \in DOMAIN vaccinations :
                            /\ vaccinations[v].dog_id = d
                            /\ InWindow(vaccinations[v].next_due_date, SqlDateNow,
                                        SummaryUpcomingDays)})


\* The anniversary events of a stored dog, with the date each was computed from.
AnniversaryPairs ==
    {<<e, dogs[events[e].dog_id].date_of_birth>> :
        e \in {x \in DOMAIN events : /\ events[x].event_type = "birthday"
                                     /\ events[x].dog_id \in DOMAIN dogs}}
    \cup
    {<<e, dogs[events[e].dog_id].adoption_date>> :
        e \in {x \in DOMAIN events : /\ events[x].event_type = "adoption_anniversary"
                                     /\ events[x].dog_id \in DOMAIN dogs}}

\* C11: the date of an anniversary event created with a dog is not before
\* the day of creation, has the month and the day of the month of the date
\* it was computed from, and lies in the current or the next calendar year.
C11_AnniversaryKeepsMonthAndDay ==
    \A p \in AnniversaryPairs :
        LET dt == events[p[1]].event_date
        IN  /\ dt >= day
            /\ getMonth(dt) = getMonth(p[2])
            /\ getDate(dt) = getDate(p[2])
            /\ getFullYear(dt) \in {getFullYear(day), getFullYear(day) + 1}

\* This year's occurrence of the month and day of the month of src.
ThisYearOccurrence(src) == MakeDate(getFullYear(day), getMonth(src), getDate(src))

\* C12: the anniversary rolls forward to next year only when this year's
\* occurrence lies before the current day: an occurrence today or later this
\* year is the event's date, one already passed yields next year's date.
C12_RollsOnlyWhenPassed ==
    \A p \in AnniversaryPairs :
        /\ tz = 0
        /\ ~(getMonth(p[2]) = 2 /\ getDate(p[2]) = 29)
        => events[p[1]].event_date =
              IF ThisYearOccurrence(p[2]) < day
              THEN MakeDate(getFullYear(day) + 1, getMonth(p[2]), getDate(p[2]))
              ELSE ThisYearOccurrence(p[2])

\* The events in after that are not in before.
NewEvents(before, after) == DOMAIN after \ DOMAIN before

\* The step of a handler that stores a new dog.
DogCreated == nextDog' = nextDog + 1

\* C13: creating a dog creates exactly one recurring yearly birthday event
\* for that dog and its user when a date of birth is given and none otherwise,
\* exactly one recurring yearly adoption_anniversary event when an adoption
\* date is given and none otherwise, and no other event.
C13_AnniversaryEventsOnCreate ==
    [][DogCreated =>
        LET d == nextDog
            new == NewEvents(events, events')
            ofType(t) == {e \in new : events'[e].event_type = t}
        IN  /\ Cardinality(ofType("birthday")) =
                    IF dogs'[d].date_of_birth # NULL THEN 1 ELSE 0
            /\ Cardinality(ofType("adoption_anniversary")) =
                    IF dogs'[d].adoption_date # NULL THEN 1 ELSE 0
            /\ new = ofType("birthday") \cup ofType("adoption_anniversary")
            /\ \A e \in new :
                    /\ events'[e].dog_id = d
                    /\ events'[e].user_id = dogs'[d].user_id
                    /\ events'[e].is_recurring
                    /\ events'[e].recurrence_pattern = "yearly"
            /\ \A e \in DOMAIN events : e \in DOMAIN events' /\ events'[e] = events[e]
    ]_vars

\* A dog created with an adoption date and a date of birth has its adoption
\* anniversary event and its birthday event.
C13_AdoptionEventCreated ==
    /\ response = Status(201)
    /\ \E d \in DOMAIN dogs, e \in DOMAIN events, b \in DOMAIN events :
          /\ dogs[d].adoption_date # NULL
          /\ dogs[d].date_of_birth # NULL
          /\ events[e].event_type = "adoption_anniversary"
          /\ events[e].dog_id = d
          /\ events[b].event_type = "birthday"
          /\ events[b].dog_id = d

\* The step of a handler that sets or changes the date of birth of dog d.
BirthDateSet(d) ==
    /\ d \in DOMAIN dogs
    /\ d \in DOMAIN dogs'
    /\ dogs'[d].date_of_birth # dogs[d].date_of_birth

\* C14: an update that sets or changes a dog's date of birth adds a recurring
\* birthday event of that dog whose date is computed from the new date.
C14_UpdateMaterializesAnniversary ==
    [][\A d \in DogIdInputs :
          BirthDateSet(d) =>
              \E e \in NewEvents(events, events') :
                  /\ events'[e].event_type = "birthday"
                  /\ events'[e].dog_id = d
                  /\ events'[e].is_recurring
                  /\ events'[e].event_date = Anniversary(dogs'[d].date_of_birth)
    ]_vars

\* The step of a handler that stores a new vaccination.
VaccinationLogged == nextVax' = nextVax + 1

\* C15: logging a vaccination with a next due date creates exactly one event:
\* a vet_appointment of the caller (the dog's owner) and the dog, dated at the
\* next due date, with a lead time of 14 days; logging a vaccination without
\* a next due date creates no event.  Either way no stored event changes.
C15_CompanionEventOnLog ==
    [][VaccinationLogged =>
        LET v == vaccinations'[nextVax]
            new == NewEvents(events, events')
        IN  /\ IF v.next_due_date # NULL
               THEN /\ Cardinality(new) = 1
                    /\ \A e \in new :
                          /\ events'[e].event_type = "vet_appointment"
                          /\ events'[e].dog_id = v.dog_id
                          /\ events'[e].user_id = dogs[v.dog_id].user_id
                          /\ events'[e].event_date = v.next_due_date
                          /\ events'[e].reminder_days_before = 14
               ELSE new = {}
            /\ \A e \in DOMAIN events : e \in DOMAIN events' /\ events'[e] = events[e]
    ]_vars

\* A vaccination logged with a next due date next to its companion event.
C15_CompanionEventCreated ==
    /\ response = Status(201)
    /\ \E v \in DOMAIN vaccinations, e \in DOMAIN events :
          /\ IsDate(vaccinations[v].next_due_date)
          /\ events[e].event_type = "vet_appointment"
          /\ events[e].event_date = vaccinations[v].next_due_date
          /\ events[e].dog_id = vaccinations[v].dog_id

\* The step of a handler that stores a new medication.
MedicationAdded == nextMed' = nextMed + 1

\* C16: adding a medication creates exactly one event when the medication has
\* a frequency: a recurring event of type medication of the caller (the dog's
\* owner) and the dog, dated at the start date, with a lead time of 0 days;
\* without a frequency it creates no event.  Either way no stored event changes.
C16_MedicationEventOnAdd ==
    [][MedicationAdded =>
        LET m == medications'[nextMed]
            new == NewEvents(events, events')
        IN  /\ IF m.frequency
               THEN /\ Cardinality(new) = 1
                    /\ \A e \in new :
                          /\ events'[e].event_type = "medication"
                          /\ events'[e].is_recurring
                          /\ events'[e].dog_id = m.dog_id
                          /\ events'[e].user_id = dogs[m.dog_id].user_id
                          /\ events'[e].event_date = m.start_date
                          /\ events'[e].reminder_days_before = 0
               ELSE new = {}
            /\ \A e \in DOMAIN events : e \in DOMAIN events' /\ events'[e] = events[e]
    ]_vars

\* A medication added with a frequency next to its event.
C16_MedicationEventCreated ==
    /\ response = Status(201)
    /\ \E m \in DOMAIN medications, e \in DOMAIN events :
          /\ medications[m].frequency
          /\ events[e].event_type = "medication"
          /\ events[e].event_date = medications[m].start_date
          /\ events[e].dog_id = medications[m].dog_id

\* C17: an operation naming a dog the caller does not own answers NotFound
\* and stores nothing: no question about a dog is answered unless the dog is
\* the asker's, no stored question names a dog of another user, and no
\* stored event names a dog of another user.
C17_ForeignDogAnswersNotFound ==
    /\ response.view = "ai/ask" /\ response.dog_id \in DOMAIN dogs
            => OwnsDog(response.user, response.dog_id)
    /\ \A i \in 1..Len(ai_queries) :
            ai_queries[i].dog_id \in DOMAIN dogs
                => dogs[ai_queries[i].dog_id].user_id = ai_queries[i].user_id
    /\ \A e \in DOMAIN events :
            events[e].dog_id \in DOMAIN dogs
                => dogs[events[e].dog_id].user_id = events[e].user_id

\* The dogs table as it would be were the dogs of users other than u absent.
OwnDogs(u) == [d \in DogsOf(u) |-> dogs[d]]

\* C18: a user's responses do not depend on the dogs of other users: the
\* query history a user reads is the one the same requests would produce on
\* a store without the other users' dogs.
C18_HistoryIndependentOfForeignDogs ==
    response.view = "ai/history"
        => response.history = HistoryRows(response.user, OwnDogs(response.user))

\* The step that deletes dog d.
DogDeleted(d) == d \in DOMAIN dogs /\ d \notin DOMAIN dogs'

\* C19: deleting a dog removes every vaccination, event, medication and
\* weight entry that belonged to the dog.
C19_DeleteCascadesToAllRecords ==
    [][\A d \in DogIdInputs :
          DogDeleted(d) =>
              /\ \A v \in DOMAIN vaccinations :
                    vaccinations[v].dog_id = d => v \notin DOMAIN vaccinations'
              /\ \A m \in DOMAIN medications :
                    medications[m].dog_id = d => m \notin DOMAIN medications'
              /\ \A i \in 1..Len(weight_history') : weight_history'[i].dog_id # d
              /\ \A e \in DOMAIN events :
                    events[e].dog_id = d => e \notin DOMAIN events'
    ]_vars

\* The weight entries of dog d, oldest first.
WeightsOf(d) == SelectSeq(weight_history, LAMBDA w : w.dog_id = d)

\* C20: a dog's current weight, when set, is the weight of the most recently
\* appended weight entry of that dog.
C20_CurrentWeightIsLastEntry ==
    \A d \in DOMAIN dogs :
        dogs[d].weight # NULL
            => /\ WeightsOf(d) # <<>>
               /\ WeightsOf(d)[Len(WeightsOf(d))].weight = dogs[d].weight

\* The step with which foodRouter.post('/') answers.
FoodAnswered == response'.view = "food/post" /\ response.view # "food/post"

\* Some stored food has the normalized name of food_name.
NormalizedNameStored(food_name) ==
    \E f \in DOMAIN food_database :
        FoodId(food_database[f].food_name) = FoodId(food_name)

\* C21: adding a food (a request that carries the required fields) whose
\* normalized name is that of a stored food answers 409 and leaves the table
\* unchanged; no request modifies or removes a stored food; and no two stored
\* foods ever share a normalized name.
C21_FoodNamesUniqueAppendOnly ==
    /\ [][FoodAnswered =>
            /\ NormalizedNameStored(response'.food_name) /\ response'.status # 400
                    => response'.status = 409 /\ food_database' = food_database
            /\ \A f \in DOMAIN food_database :
                    f \in DOMAIN food_database' /\ food_database'[f] = food_database[f]
         ]_vars
    /\ [](\A f, g \in DOMAIN food_database :
                FoodId(food_database[f].food_name) = FoodId(food_database[g].food_name)
                    => f = g)

\* An add refused because a stored food written differently has the same
\* normalized name.
C21_DuplicateRefused ==
    /\ response.view = "food/post"
    /\ response.status = 409
    /\ Cardinality(DOMAIN food_database) > Cardinality(SeedFoodNames)
    /\ \A f \in DOMAIN food_database : food_database[f].food_name # response.food_name

\* C22: a registration request is answered 201, 409 or, without the required
\* fields, 400, never with a store error, also when requests for the same
\* email are in flight together; an email that requests ask for is registered
\* by at most one of them.
C22_RegistrationConflictNotError ==
    /\ \A i \in 1..Len(registrations) :
            registrations[i].pc = "done" => registrations[i].status \in {201, 409, 400}
    /\ \A i, j \in 1..Len(registrations) :
            /\ registrations[i].status = 201
            /\ registrations[j].status = 201
            /\ registrations[i].email = registrations[j].email
            => i = j

\* provider is a provider the service is configured with.
Configured(provider, config) ==
    \/ provider = "openai" /\ config.openai
    \/ provider = "anthropic" /\ config.anthropic

\* C23: the provider called is the requested one if it is configured, else
\* the configured default if it is configured, else a configured one; the
\* request fails exactly when no provider is configured.
C23_ProviderSelectionOrder ==
    response.view = "ai/provider" =>
        LET default == OrElse(aiConfig.defaultProvider, "anthropic")
        IN  /\ IF Configured(response.requested, aiConfig)
               THEN response.provider = response.requested
               ELSE IF Configured(default, aiConfig)
               THEN response.provider = default
               ELSE \/ Configured(response.provider, aiConfig)
                    \/ response.provider = "none"
            /\ response.provider = "none"
                    <=> ~aiConfig.openai /\ ~aiConfig.anthropic

\* The anniversary events computed from a 29 February whose date lies in a
\* year that is not a leap year.
LeapDayPairs ==
    {p \in AnniversaryPairs :
        /\ getMonth(p[2]) = 2 /\ getDate(p[2]) = 29
        /\ ~IsLeap(getFullYear(events[p[1]].event_date))}

\* C24: for a source date of 29 February and a target year that is not a leap
\* year the anniversary is one and the same day of the year, whether the date
\* was rolled forward to the next year or not: 1 March on a UTC server, and
\* 28 February on a server west or east of UTC.
C24_LeapDayFallbackConsistent ==
    \A p \in LeapDayPairs :
        LET dt == events[p[1]].event_date
        IN  <<getMonth(dt), getDate(dt)>> = IF tz = 0 THEN <<3, 1>> ELSE <<2, 28>>

\* A 29 February rolled forward into a year that is not a leap year, on a
\* UTC server.
C24_LeapDayRolledForward ==
    /\ tz = 0
    /\ \E p \in LeapDayPairs : getFullYear(events[p[1]].event_date) = getFullYear(day) + 1

\* C25: no event holds a reminder lead time that is zero or negative (the
\* events of medications, created with lead time 0 by design, aside).
C25_LeadTimePositive ==
    \A e \in DOMAIN events :
        events[e].event_type # "medication" => events[e].reminder_days_before > 0

\* C28: an event created with a reminder lead time of 0 is stored with lead
\* time 0.
C28_ZeroLeadStored ==
    response.view = "events/post" /\ response.reminder_days_before = 0
        => events[response.event].reminder_days_before = 0

\* The step with which the creation of a vaccination answers failure.
VaccinationCreateFailed ==
    response'.view = "vaccinations/post" /\ response'.status = 500
        /\ response.view # "vaccinations/post"

\* C26: when the write of the companion event fails, the request answers
\* failure and the vaccination row written before it stays in the store,
\* with no event added.
C26_PartialWritePersists ==
    [][VaccinationCreateFailed =>
        /\ response'.vaccination \in DOMAIN vaccinations'
        /\ response'.vaccination \notin DOMAIN vaccinations
        /\ events' = events
    ]_vars

\* A vaccination with a next due date in the store of a dog that has no event,
\* after its creation answered failure.
C26_VaccinationWithoutCompanion ==
    /\ response.view = "vaccinations/post"
    /\ response.status = 500
    /\ response.vaccination \in DOMAIN vaccinations
    /\ IsDate(vaccinations[response.vaccination].next_due_date)
    /\ \A e \in DOMAIN events :
            events[e].dog_id # vaccinations[response.vaccination].dog_id

\* C27: a vaccination logged with a next due date on or after the day it is
\* logged is reminded at most once, and is reminded by its due date: it is
\* never past due without having been reminded.
C27_RemindedOnceByDueDate ==
    \A v \in DOMAIN vaccinations :
        IsDate(vaccinations[v].next_due_date)
            => /\ vaxLog[v] <= 1
               /\ vaccinations[v].next_due_date < UtcToday
                       => vaccinations[v].reminder_sent /\ vaxLog[v] = 1

\* The types of the events the handlers create for a dog: with the dog, with
\* a vaccination and with a medication.
DogEventTypes == {"birthday", "adoption_anniversary", "vet_appointment", "medication"}

\* C29: a scan run announces an event created for a dog only while the dog
\* is in the store, and reminds of a vaccination only while its dog is.
C29_NoReminderAfterDogDeleted ==
    [][/\ \A i \in 1..Len(runs) : RunEnds(i) =>
              \A e \in announced' :
                  events[e].event_type \in DogEventTypes
                      => events[e].dog_id \in DOMAIN dogs
       /\ \A v \in DOMAIN vaxLog :
              v \in DOMAIN vaxLog' /\ vaxLog'[v] > vaxLog[v]
                  => vaccinations[v].dog_id \in DOMAIN dogs
    ]_vars

\* The step changes the next due date of vaccination v, or deletes v and
\* keeps its dog.
DueDateRetired(v) ==
    /\ v \in DOMAIN vaccinations
    /\ IsDate(vaccinations[v].next_due_date)
    /\ vaccinations[v].dog_id \in DOMAIN dogs'
    /\ \/ v \notin DOMAIN vaccinations'
       \/ vaccinations'[v].next_due_date # vaccinations[v].next_due_date

\* C30: when the next due date of a vaccination changes or the vaccination
\* is deleted, no active vet_appointment event of its dog stays at the old
\* date, unless another vaccination of the dog is due on that date.
C30_CompanionFollowsVaccination ==
    [][\A v \in VaxIdInputs :
          DueDateRetired(v) =>
              \/ \E w \in DOMAIN vaccinations' :
                    /\ vaccinations'[w].dog_id = vaccinations[v].dog_id
                    /\ vaccinations'[w].next_due_date = vaccinations[v].next_due_date
              \/ \A e \in DOMAIN events' :
                    ~ /\ events'[e].event_type = "vet_appointment"
                      /\ events'[e].is_active
                      /\ events'[e].dog_id = vaccinations[v].dog_id
                      /\ events'[e].event_date = vaccinations[v].next_due_date
    ]_vars

====
